---------------------------- MODULE Spec2Model ----------------------------
(***************************************************************************)
(* Model of the cross-lingual alignment engine of rosetta_dict             *)
(* (src/src/rosetta_dict/pipelines/language_alignment/nodes.py).           *)
(*                                                                         *)
(* align_languages is modelled as a state machine: one action per loop     *)
(* iteration of each of its three strategies, plus the set-up code that    *)
(* runs between the loops.  Text that the code compares character by       *)
(* character (definitions) is a sequence of one-character strings; words,  *)
(* IPA and part-of-speech tags are only compared for equality and are      *)
(* plain strings.  Similarity scores are exact fractions [n, d].           *)
(***************************************************************************)
EXTENDS Integers, Sequences, FiniteSets, TLC

VARIABLES
    spanish_df,           \* input: sequence of Spanish WordEntry rows
    has_frequency_rank,   \* input: does spanish_df have a frequency_rank column
    hebrew_df,            \* input: sequence of Hebrew WordEntry rows
    bridge_df,            \* input: [given, rows]; given = FALSE is Python None
    alignments,           \* the accumulating list of alignment rows
    aligned_es_words,     \* set of Spanish headwords already aligned
    remaining_es,         \* rows left for the fuzzy phase, in processing order
    he_definitions_list,  \* joined definition texts of the Hebrew candidates
    he_candidates_dict,   \* joined definition text -> Hebrew row
    pc,                   \* "direct", "triangulation", "fuzzy", "done"
    idx,                  \* 1-based position of the current loop
    run,                  \* 1 on the first run, 2 on a re-run on the same inputs
    first_alignments,     \* result of the first run, kept by a re-run
    aligned_df,           \* enrich_entries: the alignment rows it is given
    examples_df,          \* enrich_entries: the sentence-pair corpus
    enriched,             \* enrich_entries: the accumulating list of rows
    enriched_df,          \* cluster_polysemic_senses: the rows it is given
    semantic_cluster,     \* cluster_polysemic_senses: the column of its copy
    entries               \* structure_senses: the accumulating list of entries

vars == <<spanish_df, has_frequency_rank, hebrew_df, bridge_df, alignments,
          aligned_es_words, remaining_es, he_definitions_list,
          he_candidates_dict, pc, idx, run, first_alignments,
          aligned_df, examples_df, enriched, enriched_df, semantic_cluster,
          entries>>

\* the state of the nodes that run after align_languages
later_nodes == <<aligned_df, examples_df, enriched, enriched_df,
                 semantic_cluster, entries>>

inputs == <<spanish_df, has_frequency_rank, hebrew_df, bridge_df>>

-----------------------------------------------------------------------------
(* Bounds of the model *)

MaxEs == 2        \* rows of the Spanish collection
MaxHe == 2        \* rows of the Hebrew collection
MaxBr == 1        \* rows of the bridge collection
FracDigits == 3   \* fractional digits kept when a float is printed

(* Program constants *)

fuzzy_threshold == 80        \* score_cutoff of the fuzzy pass
max_clustered_senses == 10   \* a word with more senses is not clustered
cluster_threshold == 70      \* similarity above which a sense joins a seed

-----------------------------------------------------------------------------
(* Generic helpers *)

RECURSIVE GCD(_, _)
GCD(a, b) == IF b = 0 THEN a ELSE GCD(b, a % b)

\* the fraction n/d in lowest terms (d > 0)
Frac(n, d) == LET g == GCD(n, d) IN [n |-> n \div g, d |-> d \div g]

FracGE(x, k) == x.n >= k * x.d          \* x >= k, k an integer
FracGT(x, y) == x.n * y.d > y.n * x.d   \* x > y

SeqsUpTo(S, n) == UNION {[1..k -> S] : k \in 0..n}

Range(s) == {s[k] : k \in 1..Len(s)}

-----------------------------------------------------------------------------
(* Input universes *)

S_a    == <<"a">>
S_b    == <<"b">>
S_ab   == <<"a", "b">>
S_abc  == <<"a", "b", "c">>
S_abcd == <<"a", "b", "c", "d">>

\* "Animal doméstico canino"
S_perro ==
    <<"A","n","i","m","a","l"," ","d","o","m","é","s","t","i","c","o"," ",
      "c","a","n","i","n","o">>

\* "Animal doméstico de la familia canina"
S_kelev ==
    <<"A","n","i","m","a","l"," ","d","o","m","é","s","t","i","c","o"," ",
      "d","e"," ","l","a"," ","f","a","m","i","l","i","a"," ",
      "c","a","n","i","n","a">>

EsRow(w, ipa, pos, defs, he, en, rank) ==
    [word |-> w, ipa |-> ipa, pos |-> pos, definitions |-> defs,
     translations_he |-> he, translations_en |-> en, frequency_rank |-> rank]

HeRow(w, ipa, defs) ==
    [word |-> w, ipa |-> ipa, pos |-> "noun", definitions |-> defs]

BrRow(w, lang, he) ==
    [word |-> w, source_lang |-> lang, translations_he |-> he]

\* Spanish rows: two headwords, each with several entries (one per part of
\* speech); with and without translations, with and without definitions
EsLibro1 == EsRow("libro", "e1", "noun", <<S_abcd>>,   <<>>, <<"book">>, 2)
EsLibro2 == EsRow("libro", "e2", "verb", <<S_a, S_b>>, <<"sefer", "kelev">>, <<>>, 3)
EsPerro3 == EsRow("perro", "e3", "noun", <<S_abc>>,    <<>>, <<>>, 1)
EsPerro4 == EsRow("perro", "e4", "verb", <<>>,         <<"kelev", "kelev">>, <<>>, 1)
EsPerro5 == EsRow("perro", "e5", "adj",  <<S_ab>>,     <<>>, <<>>, 2)
\* fewer definitions than translations
EsLibro6 == EsRow("libro", "e7", "adj",  <<S_abc>>,    <<"kelev", "sefer">>, <<>>, 1)

EsUniverse == {EsLibro1, EsLibro2, EsPerro3, EsPerro4, EsPerro5, EsLibro6}

\* Hebrew rows: a repeated headword, a repeated definition text, no definitions
HeSefer1 == HeRow("sefer", "h1", <<S_ab>>)
HeKelev2 == HeRow("kelev", "h2", <<S_ab>>)
HeKelev3 == HeRow("kelev", "h3", <<S_abcd>>)
HeKelev4 == HeRow("kelev", "h4", <<>>)

HeUniverse == {HeSefer1, HeKelev2, HeKelev3, HeKelev4}

\* bridge rows: filed under the English word, under the Spanish headword, and
\* tagged with the other source language
BrBook    == BrRow("book",  "es", <<"sefer">>)
BrLibro   == BrRow("libro", "es", <<"sefer">>)
BrPerro   == BrRow("perro", "es", <<"kelev", "sefer">>)
BrPerroHe == BrRow("perro", "he", <<"sefer">>)

BrUniverse == {BrBook, BrLibro, BrPerro, BrPerroHe}

\* the rows of Scenario D
EsPerroD == EsRow("perro", "e6", "noun", <<S_perro>>, <<>>, <<>>, 1)
HeKelevD == HeRow("kelev", "h5", <<S_kelev>>)

NoBridge == [given |-> FALSE, rows |-> <<>>]
Bridge(rows) == [given |-> TRUE, rows |-> rows]

-----------------------------------------------------------------------------
(* The similarity scorer: rapidfuzz.fuzz.ratio, the normalised Indel       *)
(* similarity 100 * 2*LCS(s,t) / (|s|+|t|), 100 for two empty strings.     *)

\* the largest element of a non-empty set of numbers
SetMax(S) == CHOOSE x \in S : \A y \in S : y <= x

\* cell j of the row after prev: the best of the cells 1..j, each extended by
\* a match of ch or carried down from prev
LcsCell(prev, ch, t, j) ==
    SetMax({IF t[k] = ch THEN (IF k = 1 THEN 0 ELSE prev[k - 1]) + 1
            ELSE prev[k] : k \in 1..j})

\* the cells lo..hi of the row after prev
RECURSIVE LcsCells(_, _, _, _, _)
LcsCells(prev, ch, t, lo, hi) ==
    IF lo > hi THEN <<>>
    ELSE IF lo = hi THEN <<LcsCell(prev, ch, t, lo)>>
    ELSE LET mid == (lo + hi) \div 2
         IN  LcsCells(prev, ch, t, lo, mid) \o LcsCells(prev, ch, t, mid + 1, hi)

\* the row of the LCS table for the first i characters of s (t non-empty)
RECURSIVE LcsRows(_, _, _)
LcsRows(s, t, i) ==
    IF i = 0 THEN [j \in 1..Len(t) |-> 0]
    ELSE LET prev == LcsRows(s, t, i - 1)
         IN  IF Len(prev) = 0 THEN prev
             ELSE LcsCells(prev, s[i], t, 1, Len(t))

\* length of the longest common subsequence
LCS(s, t) ==
    IF Len(t) = 0 THEN 0 ELSE LcsRows(s, t, Len(s))[Len(t)]

ratio(s, t) ==
    IF Len(s) + Len(t) = 0 THEN Frac(100, 1)
    ELSE Frac(200 * LCS(s, t), Len(s) + Len(t))

-----------------------------------------------------------------------------
(* str(float) as used by the f-string of match_type *)

DigitStr(k) == <<"0", "1", "2", "3", "4", "5", "6", "7", "8", "9">>[k + 1]

RECURSIVE IntDigits(_)
IntDigits(k) ==
    IF k < 10 THEN <<DigitStr(k)>>
    ELSE Append(IntDigits(k \div 10), DigitStr(k % 10))

\* the first digits of the decimal expansion of r/d (r < d); Python prints
\* up to 17 significant digits, the model keeps FracDigits of them
RECURSIVE FracPart(_, _, _)
FracPart(r, d, k) ==
    IF r = 0 \/ k = 0 THEN <<>>
    ELSE <<DigitStr((10 * r) \div d)>> \o FracPart((10 * r) % d, d, k - 1)

\* repr of a float: always carries a decimal point ("80.0", "85.714...")
FloatStr(x) ==
    IntDigits(x.n \div x.d) \o <<".">> \o
    (IF x.n % x.d = 0 THEN <<"0">> ELSE FracPart(x.n % x.d, x.d, FracDigits))

-----------------------------------------------------------------------------
(* Helpers of align_languages *)

\* " ".join(defs)
RECURSIVE Join(_)
Join(defs) ==
    IF Len(defs) = 0 THEN <<>>
    ELSE IF Len(defs) = 1 THEN defs[1]
    ELSE defs[1] \o <<" ">> \o Join(Tail(defs))

\* variant: the word filter is lost and every Hebrew row counts as a match
HeMatchUnfiltered(he_word) == hebrew_df

\* variant: the matching rows come last row first
HeMatchLastFirst(he_word) ==
    LET m == SelectSeq(hebrew_df, LAMBDA r : r.word = he_word)
    IN  [k \in 1..Len(m) |-> m[Len(m) + 1 - k]]

\* hebrew_df[hebrew_df["word"] == he_word]
HeMatch(he_word) == SelectSeq(hebrew_df, LAMBDA r : r.word = he_word)

\* defs[0] if defs else ""
FirstDef(defs) == IF Len(defs) > 0 THEN defs[1] ELSE <<>>

\* set(a['es_word'] for a in alignments)
AlignedWords(als) == {als[k].es_word : k \in 1..Len(als)}

-----------------------------------------------------------------------------
(* Strategy 1: direct translations (lines 44-68) *)

\* variant: senses numbered by the count of rows emitted, not by position
DirectRowRenumbered(es_row, i) ==
    LET he_word  == es_row.translations_he[i]
        he_entry == HeMatch(he_word)[1]
        es_defs  == es_row.definitions
        he_defs  == he_entry.definitions
    IN  [es_word       |-> es_row.word,
         es_ipa        |-> es_row.ipa,
         es_pos        |-> es_row.pos,
         es_definition |-> IF i <= Len(es_defs) THEN es_defs[i]
                           ELSE FirstDef(es_defs),
         he_word       |-> he_word,
         he_ipa        |-> he_entry.ipa,
         he_definition |-> FirstDef(he_defs),
         sense_id      |-> Cardinality({k \in 1..i :
                               HeMatch(es_row.translations_he[k]) # <<>>}),
         match_type    |-> <<"direct">>]

\* variant: senses numbered from 0
DirectRowZeroBased(es_row, i) ==
    LET he_word  == es_row.translations_he[i]
        he_entry == HeMatch(he_word)[1]
        es_defs  == es_row.definitions
        he_defs  == he_entry.definitions
    IN  [es_word       |-> es_row.word,
         es_ipa        |-> es_row.ipa,
         es_pos        |-> es_row.pos,
         es_definition |-> IF i <= Len(es_defs) THEN es_defs[i]
                           ELSE FirstDef(es_defs),
         he_word       |-> he_word,
         he_ipa        |-> he_entry.ipa,
         he_definition |-> FirstDef(he_defs),
         sense_id      |-> i - 1,
         match_type    |-> <<"direct">>]

\* variant: a position beyond the definitions gets the empty text
DirectRowNoFallback(es_row, i) ==
    LET he_word  == es_row.translations_he[i]
        he_entry == HeMatch(he_word)[1]
        es_defs  == es_row.definitions
        he_defs  == he_entry.definitions
    IN  [es_word       |-> es_row.word,
         es_ipa        |-> es_row.ipa,
         es_pos        |-> es_row.pos,
         es_definition |-> IF i <= Len(es_defs) THEN es_defs[i] ELSE <<>>,
         he_word       |-> he_word,
         he_ipa        |-> he_entry.ipa,
         he_definition |-> FirstDef(he_defs),
         sense_id      |-> i,
         match_type    |-> <<"direct">>]

\* the row appended for translation position i (1-based; the code's i + 1)
DirectRow(es_row, i) ==
    LET he_word  == es_row.translations_he[i]
        he_entry == HeMatch(he_word)[1]
        es_defs  == es_row.definitions
        he_defs  == he_entry.definitions
    IN  [es_word       |-> es_row.word,
         es_ipa        |-> es_row.ipa,
         es_pos        |-> es_row.pos,
         es_definition |-> IF i <= Len(es_defs) THEN es_defs[i]
                           ELSE FirstDef(es_defs),
         he_word       |-> he_word,
         he_ipa        |-> he_entry.ipa,
         he_definition |-> FirstDef(he_defs),
         sense_id      |-> i,
         match_type    |-> <<"direct">>]

\* variant: the look-up in the Hebrew collection is lost and every listed
\* translation gives a row
RECURSIVE DirectRowsUnchecked(_, _)
DirectRowsUnchecked(es_row, i) ==
    IF i > Len(es_row.translations_he) THEN <<>>
    ELSE <<[es_word       |-> es_row.word,
            es_ipa        |-> es_row.ipa,
            es_pos        |-> es_row.pos,
            es_definition |-> FirstDef(es_row.definitions),
            he_word       |-> es_row.translations_he[i],
            he_ipa        |-> "",
            he_definition |-> <<>>,
            sense_id      |-> i,
            match_type    |-> <<"direct">>]>>
         \o DirectRowsUnchecked(es_row, i + 1)

\* the inner loop over enumerate(he_translations), from position i on
RECURSIVE DirectRows(_, _)
DirectRows(es_row, i) ==
    IF i > Len(es_row.translations_he) THEN <<>>
    ELSE (IF HeMatch(es_row.translations_he[i]) # <<>>
          THEN <<DirectRow(es_row, i)>> ELSE <<>>)
         \o DirectRows(es_row, i + 1)

\* one iteration of the loop over spanish_df
DirectStep ==
    /\ pc = "direct"
    /\ idx <= Len(spanish_df)
    /\ alignments' = alignments \o DirectRows(spanish_df[idx], 1)
    /\ idx' = idx + 1
    /\ UNCHANGED <<inputs, aligned_es_words, remaining_es, he_definitions_list,
                   he_candidates_dict, pc, run, first_alignments>>
    /\ UNCHANGED later_nodes

-----------------------------------------------------------------------------
(* Strategy 2: triangulation via the bridge collection (lines 73-119) *)

\* bridge_df is not None and not bridge_df.empty
BridgeUsable == bridge_df.given /\ bridge_df.rows # <<>>

\* variant: the rows of the other source language are indexed
es_bridgeOtherLang == SelectSeq(bridge_df.rows, LAMBDA r : r.source_lang = "he")

\* bridge_df[bridge_df['source_lang'] == 'es']
es_bridge == SelectSeq(bridge_df.rows, LAMBDA r : r.source_lang = "es")

\* lines 73-80: enter the triangulation loop
BeginTriangulation ==
    /\ pc = "direct"
    /\ idx > Len(spanish_df)
    /\ BridgeUsable
    /\ aligned_es_words' = AlignedWords(alignments)
    /\ pc' = "triangulation"
    /\ idx' = 1
    /\ UNCHANGED <<inputs, alignments, remaining_es, he_definitions_list,
                   he_candidates_dict, run, first_alignments>>
    /\ UNCHANGED later_nodes

\* variant: the skip of already aligned words is lost
AlreadyAlignedNever(es_word) == FALSE

\* "Skip if already aligned"
AlreadyAligned(es_word) == es_word \in aligned_es_words

TriangulationRow(es_row, he_word) ==
    LET he_entry == HeMatch(he_word)[1]
    IN  [es_word       |-> es_row.word,
         es_ipa        |-> es_row.ipa,
         es_pos        |-> es_row.pos,
         es_definition |-> FirstDef(es_row.definitions),
         he_word       |-> he_word,
         he_ipa        |-> he_entry.ipa,
         he_definition |-> FirstDef(he_entry.definitions),
         sense_id      |-> 1,
         match_type    |-> <<"triangulation">>]

\* variant: the break is lost and every matching candidate is emitted
RECURSIVE TriangulationRowsNoBreak(_, _, _)
TriangulationRowsNoBreak(es_row, he_translations, k) ==
    IF k > Len(he_translations) THEN <<>>
    ELSE (IF HeMatch(he_translations[k]) # <<>>
          THEN <<TriangulationRow(es_row, he_translations[k])>> ELSE <<>>)
         \o TriangulationRowsNoBreak(es_row, he_translations, k + 1)

\* the loop over the bridge entry's he_translations, with its break
RECURSIVE TriangulationRows(_, _, _)
TriangulationRows(es_row, he_translations, k) ==
    IF k > Len(he_translations) THEN <<>>
    ELSE IF HeMatch(he_translations[k]) # <<>>
         THEN <<TriangulationRow(es_row, he_translations[k])>>
         ELSE TriangulationRows(es_row, he_translations, k + 1)

\* variant: the rows of the triangulation are put in front of the list
TriangulationStepPrepend ==
    /\ pc = "triangulation"
    /\ idx <= Len(spanish_df)
    /\ LET es_row   == spanish_df[idx]
           es_word  == es_row.word
           es_in_en == SelectSeq(es_bridge, LAMBDA r : r.word = es_word)
           rows     == IF AlreadyAligned(es_word) \/ es_in_en = <<>> THEN <<>>
                       ELSE TriangulationRows(es_row,
                                              es_in_en[1].translations_he, 1)
       IN  /\ alignments' = rows \o alignments
           /\ aligned_es_words' = aligned_es_words \cup AlignedWords(rows)
    /\ idx' = idx + 1
    /\ UNCHANGED <<inputs, remaining_es, he_definitions_list,
                   he_candidates_dict, pc, run, first_alignments>>
    /\ UNCHANGED later_nodes

\* one iteration of the loop over spanish_df
TriangulationStep ==
    /\ pc = "triangulation"
    /\ idx <= Len(spanish_df)
    /\ LET es_row   == spanish_df[idx]
           es_word  == es_row.word
           es_in_en == SelectSeq(es_bridge, LAMBDA r : r.word = es_word)
           rows     == IF AlreadyAligned(es_word) \/ es_in_en = <<>> THEN <<>>
                       ELSE TriangulationRows(es_row,
                                              es_in_en[1].translations_he, 1)
       IN  /\ alignments' = alignments \o rows
           /\ aligned_es_words' = aligned_es_words \cup AlignedWords(rows)
    /\ idx' = idx + 1
    /\ UNCHANGED <<inputs, remaining_es, he_definitions_list,
                   he_candidates_dict, pc, run, first_alignments>>
    /\ UNCHANGED later_nodes

-----------------------------------------------------------------------------
(* Strategy 3: fuzzy definition matching (lines 121-190) *)

\* DataFrame.sort_values('frequency_rank'): insert row r into the sorted s,
\* after the rows of equal rank
RECURSIVE InsertByRank(_, _)
InsertByRank(s, r) ==
    IF s = <<>> THEN <<r>>
    ELSE IF r.frequency_rank < s[1].frequency_rank THEN <<r>> \o s
    ELSE <<s[1]>> \o InsertByRank(Tail(s), r)

RECURSIVE SortByRank(_)
SortByRank(s) ==
    IF s = <<>> THEN <<>>
    ELSE InsertByRank(SortByRank(SubSeq(s, 1, Len(s) - 1)), s[Len(s)])

\* variant: the sort is lost
RemainingEsUnsorted(aligned) ==
    SelectSeq(spanish_df, LAMBDA r : r.word \notin aligned)

\* spanish_df[~spanish_df['word'].isin(aligned)], then the optional sort
RemainingEs(aligned) ==
    LET rest == SelectSeq(spanish_df, LAMBDA r : r.word \notin aligned)
    IN  IF has_frequency_rank THEN SortByRank(rest) ELSE rest

\* the Hebrew rows that have definitions, in source order
HeCandidates == SelectSeq(hebrew_df, LAMBDA r : r.definitions # <<>>)

\* he_definitions_list after the loop of lines 140-145
HeDefinitionsList == [k \in 1..Len(HeCandidates) |-> Join(HeCandidates[k].definitions)]

\* he_candidates_dict after the loop of lines 140-145: a later row with the
\* same joined text overwrites an earlier one
HeCandidatesDict ==
    [t \in Range(HeDefinitionsList) |->
        LET ks == {k \in 1..Len(HeCandidates) : Join(HeCandidates[k].definitions) = t}
        IN  HeCandidates[CHOOSE k \in ks : \A m \in ks : m <= k]]

\* lines 121-147: what remains, and the Hebrew candidate index
BeginFuzzy ==
    /\ \/ pc = "triangulation" /\ idx > Len(spanish_df)
       \/ pc = "direct" /\ idx > Len(spanish_df) /\ ~BridgeUsable
    /\ aligned_es_words' = AlignedWords(alignments)
    /\ remaining_es' = RemainingEs(AlignedWords(alignments))
    /\ he_definitions_list' = HeDefinitionsList
    /\ he_candidates_dict' = HeCandidatesDict
    /\ pc' = "fuzzy"
    /\ idx' = 1
    /\ UNCHANGED <<inputs, alignments, run, first_alignments>>
    /\ UNCHANGED later_nodes

\* variant: the cutoff is exclusive
PassesCutoffExclusive(score, score_cutoff) == score.n > score_cutoff * score.d

\* does a score pass the cutoff (rapidfuzz: score >= score_cutoff)
PassesCutoff(score, score_cutoff) == FracGE(score, score_cutoff)

\* process.extractOne(query, choices, scorer=fuzz.ratio, score_cutoff=...):
\* the scan from position k on; result is <<>> (None) or
\* <<choice, score, index>>; a later choice wins only with a higher score
RECURSIVE extractOneFrom(_, _, _, _, _)
extractOneFrom(query, choices, score_cutoff, k, result) ==
    IF k > Len(choices) THEN result
    ELSE LET score == ratio(query, choices[k])
         IN  IF /\ PassesCutoff(score, score_cutoff)
                /\ (result = <<>> \/ FracGT(score, result[2]))
             THEN IF score = Frac(100, 1) THEN <<choices[k], score, k - 1>>
                  ELSE extractOneFrom(query, choices, score_cutoff, k + 1,
                                      <<choices[k], score, k - 1>>)
             ELSE extractOneFrom(query, choices, score_cutoff, k + 1, result)

\* variant: the first choice that passes the cutoff is returned, not the best
extractOneFirstHit(query, choices, score_cutoff) ==
    LET ok == {k \in 1..Len(choices) :
                  PassesCutoff(ratio(query, choices[k]), score_cutoff)}
        k1 == CHOOSE k \in ok : \A m \in ok : k <= m
    IN  IF ok = {} THEN <<>>
        ELSE <<choices[k1], ratio(query, choices[k1]), k1 - 1>>

extractOne(query, choices, score_cutoff) ==
    extractOneFrom(query, choices, score_cutoff, 1, <<>>)

\* the number of scorer calls of one extractOne: every choice is scored, up
\* to and including the first one that scores 100
RECURSIVE ScorerCalls(_, _, _)
ScorerCalls(query, choices, k) ==
    IF k > Len(choices) THEN 0
    ELSE IF ratio(query, choices[k]) = Frac(100, 1) THEN 1
    ELSE 1 + ScorerCalls(query, choices, k + 1)

FuzzyRow(es_row, result) ==
    LET best_score == result[2]
        best_match == he_candidates_dict[result[1]]
    IN  [es_word       |-> es_row.word,
         es_ipa        |-> es_row.ipa,
         es_pos        |-> es_row.pos,
         es_definition |-> FirstDef(es_row.definitions),
         he_word       |-> best_match.word,
         he_ipa        |-> best_match.ipa,
         he_definition |-> FirstDef(best_match.definitions),
         sense_id      |-> 1,
         match_type    |-> <<"fuzzy_">> \o FloatStr(best_score),
         confidence    |-> Frac(best_score.n, best_score.d * 100)]

\* the rows one iteration of the fuzzy loop appends
FuzzyRows(es_row) ==
    IF es_row.definitions = <<>> THEN <<>>
    ELSE LET result == extractOne(Join(es_row.definitions),
                                  he_definitions_list, fuzzy_threshold)
         IN  IF result = <<>> THEN <<>> ELSE <<FuzzyRow(es_row, result)>>

\* variant: the choices are scanned in no fixed order, so any choice that
\* passes the cutoff may be the one returned
FuzzyStepAnyOrder ==
    /\ pc = "fuzzy"
    /\ idx <= Len(remaining_es)
    /\ LET es_row == remaining_es[idx]
           query  == Join(es_row.definitions)
           ok     == {k \in 1..Len(he_definitions_list) :
                         PassesCutoff(ratio(query, he_definitions_list[k]),
                                      fuzzy_threshold)}
       IN  IF es_row.definitions = <<>> \/ ok = {}
           THEN alignments' = alignments
           ELSE \E k \in ok :
                   alignments' = Append(alignments,
                       FuzzyRow(es_row, <<he_definitions_list[k],
                                          ratio(query, he_definitions_list[k]),
                                          k - 1>>))
    /\ idx' = idx + 1
    /\ UNCHANGED <<inputs, aligned_es_words, remaining_es, he_definitions_list,
                   he_candidates_dict, pc, run, first_alignments>>
    /\ UNCHANGED later_nodes

\* variant: an entry without definitions ends the loop
FuzzyStepStopOnEmpty ==
    /\ pc = "fuzzy"
    /\ idx <= Len(remaining_es)
    /\ alignments' = alignments \o FuzzyRows(remaining_es[idx])
    /\ idx' = IF remaining_es[idx].definitions = <<>>
              THEN Len(remaining_es) + 1 ELSE idx + 1
    /\ UNCHANGED <<inputs, aligned_es_words, remaining_es, he_definitions_list,
                   he_candidates_dict, pc, run, first_alignments>>
    /\ UNCHANGED later_nodes

\* one iteration of the loop over remaining_es
FuzzyStep ==
    /\ pc = "fuzzy"
    /\ idx <= Len(remaining_es)
    /\ alignments' = alignments \o FuzzyRows(remaining_es[idx])
    /\ idx' = idx + 1
    /\ UNCHANGED <<inputs, aligned_es_words, remaining_es, he_definitions_list,
                   he_candidates_dict, pc, run, first_alignments>>
    /\ UNCHANGED later_nodes

\* lines 192-194: the list is returned
Finish ==
    /\ pc = "fuzzy"
    /\ idx > Len(remaining_es)
    /\ pc' = "done"
    /\ UNCHANGED <<inputs, alignments, aligned_es_words, remaining_es,
                   he_definitions_list, he_candidates_dict, idx, run,
                   first_alignments>>
    /\ UNCHANGED later_nodes

\* a second call of align_languages on the same inputs
Rerun ==
    /\ pc = "done"
    /\ run = 1
    /\ first_alignments' = alignments
    /\ run' = 2
    /\ alignments' = <<>>
    /\ aligned_es_words' = {}
    /\ remaining_es' = <<>>
    /\ he_definitions_list' = <<>>
    /\ he_candidates_dict' = <<>>
    /\ pc' = "direct"
    /\ idx' = 1
    /\ UNCHANGED inputs
    /\ UNCHANGED later_nodes

-----------------------------------------------------------------------------
(* Specifications *)

\* the state at entry of align_languages (lines 40-41)
Entry ==
    /\ alignments = <<>>
    /\ aligned_es_words = {}
    /\ remaining_es = <<>>
    /\ he_definitions_list = <<>>
    /\ he_candidates_dict = <<>>
    /\ pc = "direct"
    /\ idx = 1
    /\ run = 1
    /\ first_alignments = <<>>
    /\ aligned_df = <<>>
    /\ examples_df = <<>>
    /\ enriched = <<>>
    /\ enriched_df = <<>>
    /\ semantic_cluster = <<>>
    /\ entries = <<>>

BridgeInputs == {NoBridge} \cup {Bridge(b) : b \in SeqsUpTo(BrUniverse, MaxBr)}

Init ==
    /\ spanish_df \in SeqsUpTo(EsUniverse, MaxEs)
    /\ has_frequency_rank \in BOOLEAN
    /\ hebrew_df \in SeqsUpTo(HeUniverse, MaxHe)
    /\ bridge_df \in BridgeInputs
    /\ Entry

Next ==
    \/ DirectStep
    \/ BeginTriangulation
    \/ TriangulationStep
    \/ BeginFuzzy
    \/ FuzzyStep
    \/ Finish

Spec == Init /\ [][Next]_vars

\* the engine run twice on the same inputs
NextRerun == Next \/ Rerun

SpecRerun == Init /\ [][NextRerun]_vars

\* Scenario D: the collections hold the scenario's two rows, alone or beside
\* one other row
InitScenarioD ==
    /\ spanish_df \in {s \in SeqsUpTo(EsUniverse \cup {EsPerroD}, MaxEs) :
                           EsPerroD \in Range(s)}
    /\ has_frequency_rank \in BOOLEAN
    /\ hebrew_df \in {s \in SeqsUpTo(HeUniverse \cup {HeKelevD}, MaxHe) :
                          HeKelevD \in Range(s)}
    /\ bridge_df \in BridgeInputs
    /\ Entry

SpecScenarioD == InitScenarioD /\ [][Next]_vars

-----------------------------------------------------------------------------
(* enrich_entries (lines 197-234): every alignment row is joined with the   *)
(* sentence pairs of the corpus that contain both of its words.             *)

MaxAligned == 2   \* rows of the alignment collection given to enrich_entries
MaxEx == 2        \* sentence pairs of the corpus

\* alignment rows as align_languages emits them: direct rows have no
\* confidence field, fuzzy rows have one
AlRow(es_word, es_def, he_word, sense_id, match_type) ==
    [es_word       |-> es_word,
     es_ipa        |-> "e1",
     es_pos        |-> "noun",
     es_definition |-> es_def,
     he_word       |-> he_word,
     he_ipa        |-> "h1",
     he_definition |-> S_ab,
     sense_id      |-> sense_id,
     match_type    |-> match_type]

AlPerroKelev == AlRow("perro", S_abc, "kelev", 1, <<"direct">>)
AlPerroSefer == AlRow("perro", S_ab, "sefer", 2, <<"direct">>)
AlLibroSefer ==
    [es_word       |-> "libro",
     es_ipa        |-> "e2",
     es_pos        |-> "noun",
     es_definition |-> S_abcd,
     he_word       |-> "sefer",
     he_ipa        |-> "h1",
     he_definition |-> S_abcd,
     sense_id      |-> 1,
     match_type    |-> <<"fuzzy_", "1", "0", "0", ".", "0">>,
     confidence    |-> Frac(1, 1)]

AlignedUniverse == {AlPerroKelev, AlPerroSefer, AlLibroSefer}

\* a sentence pair: the two texts and their token lists
ExRow(es, he, es_words, he_words) ==
    [es |-> es, he |-> he, es_words |-> es_words, he_words |-> he_words]

\* both words of perro-kelev as tokens
ExPerroKelev == ExRow("El perro ladra.", "hakelev noveax.",
                      <<"el", "perro", "ladra">>, <<"kelev", "noveax">>)
\* the words of two alignments as tokens
ExTwoPairs   == ExRow("El perro y el libro.", "kelev vesefer.",
                      <<"el", "perro", "y", "el", "libro">>, <<"kelev", "sefer">>)
\* only the Spanish word as a token
ExEsOnly     == ExRow("El perro duerme.", "haxatul yashen.",
                      <<"el", "perro", "duerme">>, <<"xatul", "yashen">>)
\* the words only as parts of longer tokens
ExInflected  == ExRow("Los perros ladran.", "haklavim vehakelev.",
                      <<"los", "perros", "ladran">>, <<"haklavim", "vehakelev">>)

ExUniverse == {ExPerroKelev, ExTwoPairs, ExEsOnly, ExInflected}

\* the tokens of the universe that contain a word as a proper substring
ProperSubstrings ==
    {<<"perro", "perros">>, <<"kelev", "vehakelev">>, <<"el", "kelev">>,
     <<"el", "vehakelev">>}

\* variant: w in x on a token list taken as substring search
InTokensSubstring(w, x) ==
    \E k \in 1..Len(x) : x[k] = w \/ <<w, x[k]>> \in ProperSubstrings

\* w in x, x a list of tokens
InTokens(w, x) == \E k \in 1..Len(x) : x[k] = w

\* examples_df[(es_words contains es_word) & (he_words contains he_word)]
MatchingExamples(row) ==
    SelectSeq(examples_df,
              LAMBDA ex : /\ InTokens(row.es_word, ex.es_words)
                          /\ InTokens(row.he_word, ex.he_words))

\* the list built by the loop of lines 220-225
Examples(row) ==
    LET m == MatchingExamples(row)
    IN  [k \in 1..Len(m) |-> [es |-> m[k].es, he |-> m[k].he]]

\* variant: only the two words of the row are carried over
EnrichedRowWordsOnly(row) ==
    [f \in {"es_word", "he_word", "examples"} |->
        IF f = "examples" THEN Examples(row) ELSE row[f]]

\* {**row.to_dict(), "examples": examples}
EnrichedRow(row) ==
    [f \in DOMAIN row \cup {"examples"} |->
        IF f = "examples" THEN Examples(row) ELSE row[f]]

\* one iteration of the loop over aligned_df
EnrichStep ==
    /\ pc = "enrich"
    /\ idx <= Len(aligned_df)
    /\ enriched' = Append(enriched, EnrichedRow(aligned_df[idx]))
    /\ idx' = idx + 1
    /\ UNCHANGED <<inputs, alignments, aligned_es_words, remaining_es,
                   he_definitions_list, he_candidates_dict, pc, run,
                   first_alignments, aligned_df, examples_df, enriched_df,
                   semantic_cluster, entries>>

\* lines 232-234: the list is returned
EnrichFinish ==
    /\ pc = "enrich"
    /\ idx > Len(aligned_df)
    /\ pc' = "enriched"
    /\ UNCHANGED <<inputs, alignments, aligned_es_words, remaining_es,
                   he_definitions_list, he_candidates_dict, idx, run,
                   first_alignments, aligned_df, examples_df, enriched,
                   enriched_df, semantic_cluster, entries>>

\* align_languages is not running
AlignIdle ==
    /\ spanish_df = <<>>
    /\ has_frequency_rank = FALSE
    /\ hebrew_df = <<>>
    /\ bridge_df = NoBridge
    /\ alignments = <<>>
    /\ aligned_es_words = {}
    /\ remaining_es = <<>>
    /\ he_definitions_list = <<>>
    /\ he_candidates_dict = <<>>
    /\ run = 1
    /\ first_alignments = <<>>

\* the state at entry of enrich_entries (line 212)
InitEnrich ==
    /\ AlignIdle
    /\ aligned_df \in SeqsUpTo(AlignedUniverse, MaxAligned)
    /\ examples_df \in SeqsUpTo(ExUniverse, MaxEx)
    /\ enriched = <<>>
    /\ enriched_df = <<>>
    /\ semantic_cluster = <<>>
    /\ entries = <<>>
    /\ pc = "enrich"
    /\ idx = 1

NextEnrich == EnrichStep \/ EnrichFinish

SpecEnrich == InitEnrich /\ [][NextEnrich]_vars

-----------------------------------------------------------------------------
(* cluster_polysemic_senses (lines 237-298): the senses of a Spanish word   *)
(* are grouped by the similarity of their Spanish definitions.              *)

MaxSenses == 3    \* rows of a short collection given to the clustering

\* two texts of 10 characters with a longest common subsequence of 7:
\* their ratio is exactly 70
S_seven_ghi == <<"a", "b", "c", "d", "e", "f", "g", "h", "i", "j">>
S_seven_xyz == <<"a", "b", "c", "d", "e", "f", "g", "x", "y", "z">>

\* an enriched row of a Spanish word with a definition
ClRow(es_word, es_def) ==
    LET row == AlRow(es_word, es_def, "sefer", 1, <<"direct">>)
    IN  [f \in DOMAIN row \cup {"examples"} |->
            IF f = "examples" THEN <<>> ELSE row[f]]

ClUniverse ==
    {ClRow("perro", d) : d \in {S_ab, S_abc, S_abcd, S_seven_ghi, S_seven_xyz}}
    \cup {ClRow("libro", S_ab)}

\* n senses of one word, their definitions taken in turn from defs
LongGroup(n, defs) ==
    [k \in 1..n |-> ClRow("perro", defs[((k - 1) % Len(defs)) + 1])]

\* collections with a word of exactly the largest clustered size, and of one
\* sense more, alone or after a word with one sense
LongInputs ==
    LET groups == {LongGroup(n, defs) :
                      n \in {max_clustered_senses, max_clustered_senses + 1},
                      defs \in {<<S_ab>>, <<S_ab, S_abcd>>,
                                <<S_abcd, S_ab, S_abc>>}}
    IN  groups \cup {<<ClRow("libro", S_ab)>> \o g : g \in groups}

\* the order in which groupby("es_word") yields its groups: sorted keys
WordOrder == <<"libro", "perro">>

GroupKeys(df) ==
    SelectSeq(WordOrder, LAMBDA w : \E k \in 1..Len(df) : df[k].es_word = w)

\* the row positions of a group, in row order
RECURSIVE GroupPositionsFrom(_, _, _)
GroupPositionsFrom(df, w, k) ==
    IF k > Len(df) THEN <<>>
    ELSE (IF df[k].es_word = w THEN <<k>> ELSE <<>>)
         \o GroupPositionsFrom(df, w, k + 1)

GroupPositions(df, w) == GroupPositionsFrom(df, w, 1)

\* variant: a word with exactly the largest size is skipped as well
TooManySensesInclusive(n) == n >= max_clustered_senses

\* if n > 10: continue
TooManySenses(n) == n > max_clustered_senses

\* variant: a similarity of exactly the threshold joins
SimilarInclusive(similarity) == FracGE(similarity, cluster_threshold)

\* variant: the threshold is lowered to 60
SimilarLoose(similarity) == FracGT(similarity, Frac(60, 1))

\* if similarity > 70
Similar(similarity) == FracGT(similarity, Frac(cluster_threshold, 1))

\* variant: a sense is compared with the last member of the cluster, not
\* with its seed
RECURSIVE AbsorbFromChained(_, _, _, _, _)
AbsorbFromChained(definitions, i, j, current_cluster, used_indices) ==
    IF j > Len(definitions) THEN <<current_cluster, used_indices>>
    ELSE IF j \in used_indices
         THEN AbsorbFromChained(definitions, i, j + 1, current_cluster,
                                used_indices)
    ELSE IF Similar(ratio(definitions[current_cluster[Len(current_cluster)]],
                          definitions[j]))
         THEN AbsorbFromChained(definitions, i, j + 1,
                                Append(current_cluster, j),
                                used_indices \cup {j})
    ELSE AbsorbFromChained(definitions, i, j + 1, current_cluster, used_indices)

\* the inner loop over j in range(i + 1, n) (1-based here); the state is
\* <<current_cluster, used_indices>>
RECURSIVE AbsorbFrom(_, _, _, _, _)
AbsorbFrom(definitions, i, j, current_cluster, used_indices) ==
    IF j > Len(definitions) THEN <<current_cluster, used_indices>>
    ELSE IF j \in used_indices
         THEN AbsorbFrom(definitions, i, j + 1, current_cluster, used_indices)
    ELSE IF Similar(ratio(definitions[i], definitions[j]))
         THEN AbsorbFrom(definitions, i, j + 1, Append(current_cluster, j),
                         used_indices \cup {j})
    ELSE AbsorbFrom(definitions, i, j + 1, current_cluster, used_indices)

\* the outer loop over i in range(n); the result is the list clusters
RECURSIVE ClustersFrom(_, _, _, _)
ClustersFrom(definitions, i, clusters, used_indices) ==
    IF i > Len(definitions) THEN clusters
    ELSE IF i \in used_indices
         THEN ClustersFrom(definitions, i + 1, clusters, used_indices)
    ELSE LET r == AbsorbFrom(definitions, i, i + 1, <<i>>, used_indices \cup {i})
         IN  ClustersFrom(definitions, i + 1, Append(clusters, r[1]), r[2])

Clusters(definitions) == ClustersFrom(definitions, 1, <<>>, {})

\* variant: the clusters are numbered from the last one formed
AssignClustersReversed(column, positions, clusters) ==
    [k \in 1..Len(column) |->
        IF \E c \in 1..Len(clusters) :
              \E m \in 1..Len(clusters[c]) : positions[clusters[c][m]] = k
        THEN Len(clusters) + 1 -
             (CHOOSE c \in 1..Len(clusters) :
                 \E m \in 1..Len(clusters[c]) : positions[clusters[c][m]] = k)
        ELSE column[k]]

\* the column after the assignment loop of lines 290-293 for one group
AssignClusters(column, positions, clusters) ==
    [k \in 1..Len(column) |->
        IF \E c \in 1..Len(clusters) :
              \E m \in 1..Len(clusters[c]) : positions[clusters[c][m]] = k
        THEN CHOOSE c \in 1..Len(clusters) :
                \E m \in 1..Len(clusters[c]) : positions[clusters[c][m]] = k
        ELSE column[k]]

\* lines 251-252: the copy and its default column
ClusterBegin ==
    /\ pc = "cluster_entry"
    /\ semantic_cluster' = [k \in 1..Len(enriched_df) |-> 1]
    /\ pc' = "cluster"
    /\ idx' = 1
    /\ UNCHANGED <<inputs, alignments, aligned_es_words, remaining_es,
                   he_definitions_list, he_candidates_dict, run,
                   first_alignments, aligned_df, examples_df, enriched,
                   enriched_df, entries>>

\* one iteration of the loop over the groups (lines 255-293)
ClusterGroup ==
    /\ pc = "cluster"
    /\ idx <= Len(GroupKeys(enriched_df))
    /\ LET es_word     == GroupKeys(enriched_df)[idx]
           positions   == GroupPositions(enriched_df, es_word)
           definitions == [k \in 1..Len(positions) |->
                              enriched_df[positions[k]].es_definition]
           n           == Len(definitions)
       IN  semantic_cluster' =
               IF Len(positions) <= 1 \/ TooManySenses(n) THEN semantic_cluster
               ELSE AssignClusters(semantic_cluster, positions,
                                   Clusters(definitions))
    /\ idx' = idx + 1
    /\ UNCHANGED <<inputs, alignments, aligned_es_words, remaining_es,
                   he_definitions_list, he_candidates_dict, pc, run,
                   first_alignments, aligned_df, examples_df, enriched,
                   enriched_df, entries>>

\* lines 295-298: the copy is returned
ClusterFinish ==
    /\ pc = "cluster"
    /\ idx > Len(GroupKeys(enriched_df))
    /\ pc' = "clustered"
    /\ UNCHANGED <<inputs, alignments, aligned_es_words, remaining_es,
                   he_definitions_list, he_candidates_dict, idx, run,
                   first_alignments, aligned_df, examples_df, enriched,
                   enriched_df, semantic_cluster, entries>>

\* the state at entry of cluster_polysemic_senses
InitCluster ==
    /\ AlignIdle
    /\ aligned_df = <<>>
    /\ examples_df = <<>>
    /\ enriched = <<>>
    /\ enriched_df \in (SeqsUpTo(ClUniverse, MaxSenses) \ {<<>>}) \cup LongInputs
    /\ semantic_cluster = <<>>
    /\ entries = <<>>
    /\ pc = "cluster_entry"
    /\ idx = 1

NextCluster == ClusterBegin \/ ClusterGroup \/ ClusterFinish

SpecCluster == InitCluster /\ [][NextCluster]_vars

-----------------------------------------------------------------------------
(* structure_senses (lines 301-348): the rows are grouped by Spanish word   *)
(* into dictionary entries with one sense per row.                          *)

MaxStructured == 3   \* rows of the collection given to structure_senses

\* an enriched row with its own IPA, part of speech, sense_id and examples
StRow(es_word, es_ipa, es_pos, es_def, he_word, he_ipa, sense_id, examples) ==
    [f \in DOMAIN AlPerroKelev \cup {"examples"} |->
        CASE f = "es_word"       -> es_word
          [] f = "es_ipa"        -> es_ipa
          [] f = "es_pos"        -> es_pos
          [] f = "es_definition" -> es_def
          [] f = "he_word"       -> he_word
          [] f = "he_ipa"        -> he_ipa
          [] f = "he_definition" -> S_ab
          [] f = "sense_id"      -> sense_id
          [] f = "match_type"    -> <<"direct">>
          [] f = "examples"      -> examples]

\* rows of one word that differ in every sense field, the higher sense_id
\* first, and a row of a word that sorts before it
StPerro2 == StRow("perro", "e1", "noun", S_ab, "kelev", "h1", 2,
                  <<[es |-> "El perro ladra.", he |-> "hakelev noveax."]>>)
StPerro1 == StRow("perro", "e2", "verb", S_abc, "sefer", "h2", 1, <<>>)
StPerro3 == StRow("perro", "e4", "noun", S_abcd, "sefer", "h2", 3, <<>>)
StLibro1 == StRow("libro", "e3", "adj", S_abcd, "sefer", "h3", 1, <<>>)

StUniverse == {StPerro2, StPerro1, StPerro3, StLibro1}

\* one sense of an entry (lines 324-331)
Sense(row) ==
    [sense_id   |-> row.sense_id,
     definition |-> row.es_definition,
     ipa_hebrew |-> row.he_ipa,
     hebrew     |-> row.he_word,
     pos        |-> row.es_pos,
     examples   |-> row.examples]

\* variant: the senses of an entry are put in sense_id order
RECURSIVE SensesSorted(_, _)
SensesSorted(df, positions) ==
    IF positions = <<>> THEN <<>>
    ELSE LET ks == 1..Len(positions)
             m  == CHOOSE k \in ks :
                       \A j \in ks :
                           \/ df[positions[k]].sense_id < df[positions[j]].sense_id
                           \/ /\ df[positions[k]].sense_id = df[positions[j]].sense_id
                              /\ k <= j
         IN  <<Sense(df[positions[m]])>>
             \o SensesSorted(df, SelectSeq(positions, LAMBDA x : x # positions[m]))

\* the senses of a group, in row order (lines 321-332)
Senses(df, positions) ==
    [k \in 1..Len(positions) |-> Sense(df[positions[k]])]

\* variant: a row that repeats the Hebrew word of an earlier row of the group
\* is merged into it
DictionaryEntryMerged(df, es_word) ==
    LET positions == GroupPositions(df, es_word)
        kept == SelectSeq(positions,
                    LAMBDA x : \A y \in Range(positions) :
                                   y < x => df[y].he_word # df[x].he_word)
    IN  [id    |-> <<"es: ", es_word>>,
         entry |-> [word      |-> es_word,
                    ipa       |-> df[positions[1]].es_ipa,
                    language  |-> "es",
                    etymology |-> "None",
                    senses    |-> Senses(df, kept)]]

\* the entry of a group (lines 335-344)
DictionaryEntry(df, es_word) ==
    LET positions == GroupPositions(df, es_word)
    IN  [id    |-> <<"es: ", es_word>>,
         entry |-> [word      |-> es_word,
                    ipa       |-> df[positions[1]].es_ipa,
                    language  |-> "es",
                    etymology |-> "None",
                    senses    |-> Senses(df, positions)]]

\* one iteration of the loop over the groups (lines 319-345)
StructureGroup ==
    /\ pc = "structure"
    /\ idx <= Len(GroupKeys(enriched_df))
    /\ entries' = Append(entries,
                         DictionaryEntry(enriched_df, GroupKeys(enriched_df)[idx]))
    /\ idx' = idx + 1
    /\ UNCHANGED <<inputs, alignments, aligned_es_words, remaining_es,
                   he_definitions_list, he_candidates_dict, pc, run,
                   first_alignments, aligned_df, examples_df, enriched,
                   enriched_df, semantic_cluster>>

\* lines 347-348: the list is returned
StructureFinish ==
    /\ pc = "structure"
    /\ idx > Len(GroupKeys(enriched_df))
    /\ pc' = "structured"
    /\ UNCHANGED <<inputs, alignments, aligned_es_words, remaining_es,
                   he_definitions_list, he_candidates_dict, idx, run,
                   first_alignments, aligned_df, examples_df, enriched,
                   enriched_df, semantic_cluster, entries>>

\* the state at entry of structure_senses
InitStructure ==
    /\ AlignIdle
    /\ aligned_df = <<>>
    /\ examples_df = <<>>
    /\ enriched = <<>>
    /\ enriched_df \in SeqsUpTo(StUniverse, MaxStructured)
    /\ semantic_cluster = <<>>
    /\ entries = <<>>
    /\ pc = "structure"
    /\ idx = 1

NextStructure == StructureGroup \/ StructureFinish

SpecStructure == InitStructure /\ [][NextStructure]_vars

-----------------------------------------------------------------------------
(* Vocabulary of the properties *)

Done == pc = "done"

AIdx == 1..Len(alignments)

\* the strategy that produced a row: "direct", "triangulation" or "fuzzy"
Strategy(a) ==
    IF a.match_type[1] = "fuzzy_" THEN "fuzzy" ELSE a.match_type[1]

EsWordSet == {spanish_df[p].word : p \in 1..Len(spanish_df)}
HeWordSet == {hebrew_df[p].word : p \in 1..Len(hebrew_df)}

\* the rows of a Spanish headword, by strategy
RowsOf(w, strategy) ==
    {i \in AIdx : alignments[i].es_word = w /\ Strategy(alignments[i]) = strategy}

\* the headword has a row from strategy 1 or 2
AlignedEarlier(w) == RowsOf(w, "direct") \cup RowsOf(w, "triangulation") # {}

\* the positions of a candidate list whose word is a Hebrew headword
Present(he_translations) ==
    {k \in 1..Len(he_translations) : he_translations[k] \in HeWordSet}

MinOf(S) == CHOOSE x \in S : \A y \in S : x <= y

\* the positions of the bridge rows consulted for a Spanish headword
BridgeEntries(w) ==
    {q \in 1..Len(bridge_df.rows) :
        bridge_df.rows[q].source_lang = "es" /\ bridge_df.rows[q].word = w}

\* the Hebrew rows with a non-empty definition list
HeWithDefs == {h \in Range(hebrew_df) : h.definitions # <<>>}

\* the similarity of a Spanish and a Hebrew row's joined definitions
RowScore(e, h) == ratio(Join(e.definitions), Join(h.definitions))

\* some Hebrew candidate reaches the threshold for the Spanish row
Reaches(e) == \E h \in HeWithDefs : FracGE(RowScore(e, h), fuzzy_threshold)

\* h is a best-scoring Hebrew candidate for the Spanish row
Best(e, h) ==
    /\ h \in HeWithDefs
    /\ \A g \in HeWithDefs : ~FracGT(RowScore(e, g), RowScore(e, h))

\* the fuzzy rows emitted for a Spanish row
FuzzyRowsOf(e) ==
    {i \in RowsOf(e.word, "fuzzy") :
        alignments[i].es_ipa = e.ipa /\ alignments[i].es_pos = e.pos}

-----------------------------------------------------------------------------
(* C1 - after align_languages no Spanish headword has rows from more than   *)
(* one strategy: a word with a direct row has no triangulation or fuzzy     *)
(* row, and a word with a triangulation row has no fuzzy row.               *)
C1_OneStrategyPerWord ==
    Done =>
        \A i, j \in AIdx :
            alignments[i].es_word = alignments[j].es_word
                => Strategy(alignments[i]) = Strategy(alignments[j])

\* a directly aligned word that the bridge and the fuzzy pass could also align
C1_Witness ==
    /\ Done
    /\ \E e \in Range(spanish_df) :
          /\ RowsOf(e.word, "direct") # {}
          /\ BridgeUsable
          /\ \E q \in BridgeEntries(e.word) :
                Present(bridge_df.rows[q].translations_he) # {}
          /\ e.definitions # <<>>
          /\ Reaches(e)

\* no collection holds the same row twice
RowsDistinct(df) == \A p, q \in 1..Len(df) : df[p] = df[q] => p = q

(* C2 - in the output, for every triple (es_word, he_word, sense_id) at     *)
(* most one alignment row exists, also when a collection holds several      *)
(* entries with the same headword (here: entries that differ from each      *)
(* other, e.g. in their part of speech).                                    *)
C2_NoDuplicateTriples ==
    (Done /\ RowsDistinct(spanish_df) /\ RowsDistinct(hebrew_df)) =>
        \A i, j \in AIdx :
            (/\ alignments[i].es_word = alignments[j].es_word
             /\ alignments[i].he_word = alignments[j].he_word
             /\ alignments[i].sense_id = alignments[j].sense_id) => i = j

C4_WordsFromSources ==
    \A i \in AIdx :
        /\ alignments[i].es_word \in EsWordSet
        /\ alignments[i].he_word \in HeWordSet

\* rows of two strategies, beside a translation link that names no Hebrew entry
C4_Witness ==
    /\ Done
    /\ \E i, j \in AIdx :
          /\ Strategy(alignments[i]) = "direct"
          /\ Strategy(alignments[j]) = "fuzzy"
    /\ \E e \in Range(spanish_df) :
          Present(e.translations_he) # 1..Len(e.translations_he)

-----------------------------------------------------------------------------
\* the translation positions <<p, k>> of the Spanish collection that name a
\* Hebrew headword (k is 1-based: the code's position i is k - 1)
DirectHits ==
    UNION {{<<p, k>> : k \in Present(spanish_df[p].translations_he)} :
              p \in 1..Len(spanish_df)}

HitBefore(g, h) == g[1] < h[1] \/ (g[1] = h[1] /\ g[2] < h[2])

DirectPart == SelectSeq(alignments, LAMBDA a : Strategy(a) = "direct")

DirectPhaseOver == pc # "direct" \/ idx > Len(spanish_df)

(* C5 - direct strategy: for every Spanish entry and every position i of    *)
(* its translations_he, exactly one row with match_type "direct",           *)
(* sense_id = i + 1 and he_word = translations_he[i] is emitted if that     *)
(* word is a Hebrew headword, and none otherwise; the rows appear in        *)
(* source order and translation-list order.                                 *)
C5_DirectOnePerPresentTranslation ==
    DirectPhaseOver =>
        /\ Len(DirectPart) = Cardinality(DirectHits)
        /\ \A h \in DirectHits :
              LET a == DirectPart[1 + Cardinality({g \in DirectHits : HitBefore(g, h)})]
                  e == spanish_df[h[1]]
              IN  /\ a.es_word = e.word
                  /\ a.es_ipa = e.ipa
                  /\ a.he_word = e.translations_he[h[2]]
                  /\ a.sense_id = (h[2] - 1) + 1
                  /\ a.match_type = <<"direct">>

\* an entry with two present translations, and an entry whose first
\* translation is absent and whose second is present
C5_Witness ==
    /\ Done
    /\ \E e \in Range(spanish_df) : Cardinality(Present(e.translations_he)) >= 2
    /\ \E e \in Range(spanish_df) : Present(e.translations_he) = {2}

-----------------------------------------------------------------------------
TriangulationPhaseOver == pc \in {"fuzzy", "done"}

(* C6 - triangulation: a Spanish headword gets at most one triangulation    *)
(* row, with sense_id 1, and only if it has no direct row; its he_word is   *)
(* the first word, in list order, of the translations_he of the (first)     *)
(* bridge entry with source_lang "es" and that headword that is a Hebrew    *)
(* headword; no row is emitted for a later candidate.  Such a row is        *)
(* emitted whenever that bridge entry has a candidate that is a Hebrew      *)
(* headword.                                                                *)
C6_TriangulationFirstCandidateOnly ==
    TriangulationPhaseOver =>
        \A w \in EsWordSet :
            LET tri   == RowsOf(w, "triangulation")
                cands == bridge_df.rows[MinOf(BridgeEntries(w))].translations_he
                can   == /\ RowsOf(w, "direct") = {}
                         /\ BridgeUsable
                         /\ BridgeEntries(w) # {}
                         /\ Present(cands) # {}
            IN  /\ Cardinality(tri) = IF can THEN 1 ELSE 0
                /\ \A i \in tri :
                      /\ alignments[i].sense_id = 1
                      /\ alignments[i].he_word = cands[MinOf(Present(cands))]

\* a triangulated word whose bridge entry lists two Hebrew headwords
C6_Witness ==
    /\ Done
    /\ \E w \in EsWordSet :
          /\ RowsOf(w, "triangulation") # {}
          /\ Cardinality(Present(
                bridge_df.rows[MinOf(BridgeEntries(w))].translations_he)) >= 2

-----------------------------------------------------------------------------
\* some row links "libro" to "sefer" by triangulation
LibroTriangulated ==
    \E i \in RowsOf("libro", "triangulation") : alignments[i].he_word = "sefer"

(* C7 as stated - Scenario C: a Spanish entry "libro" with empty            *)
(* translations_he and translations_en = ["book"], a bridge entry with      *)
(* word = "book", source_lang = "es", translations_he = ["sefer"], and a    *)
(* Hebrew entry "sefer" give one triangulation row libro -> sefer.          *)
C7_ScenarioC_AsStated ==
    (/\ Done
     /\ \E e \in Range(spanish_df) :
           /\ e.word = "libro"
           /\ e.translations_he = <<>>
           /\ e.translations_en = <<"book">>
     /\ BrBook \in Range(bridge_df.rows)
     /\ "sefer" \in HeWordSet)
        => LibroTriangulated

(* C7 as amended - Scenario C with the bridge entry filed under the Spanish *)
(* headword: "libro" has an entry with empty translations_he and no direct  *)
(* row, the first bridge entry with word = "libro" and source_lang = "es"   *)
(* has translations_he = ["sefer"], and "sefer" is a Hebrew headword; then  *)
(* "libro" gets exactly one row, a triangulation to "sefer".                *)
C7_ScenarioC_HeadwordKeyed ==
    (/\ Done
     /\ \E e \in Range(spanish_df) :
           e.word = "libro" /\ e.translations_he = <<>>
     /\ \A e \in Range(spanish_df) :
           e.word = "libro" => Present(e.translations_he) = {}
     /\ BridgeUsable
     /\ BridgeEntries("libro") # {}
     /\ bridge_df.rows[MinOf(BridgeEntries("libro"))].translations_he = <<"sefer">>
     /\ "sefer" \in HeWordSet)
        => /\ LibroTriangulated
           /\ Cardinality({i \in AIdx : alignments[i].es_word = "libro"}) = 1

\* the amended scenario, with the Spanish entry that names "book"
C7_Witness ==
    /\ Done
    /\ EsLibro1 \in Range(spanish_df)
    /\ \A e \in Range(spanish_df) :
          e.word = "libro" => Present(e.translations_he) = {}
    /\ BridgeUsable
    /\ BridgeEntries("libro") # {}
    /\ bridge_df.rows[MinOf(BridgeEntries("libro"))] = BrLibro
    /\ "sefer" \in HeWordSet
    /\ LibroTriangulated

-----------------------------------------------------------------------------
\* the Spanish row has definitions and its best Hebrew candidate scores 80
BestIsThreshold(e) ==
    /\ e.definitions # <<>>
    /\ \E h \in HeWithDefs :
          Best(e, h) /\ RowScore(e, h) = Frac(fuzzy_threshold, 1)

(* C8 - every fuzzy row has a similarity score >= 80 and confidence =       *)
(* score / 100, so its confidence lies in [0.8, 1.0]; a best score of       *)
(* exactly 80 is accepted; and a Spanish word that reaches the fuzzy pass   *)
(* and whose entries all score below 80 against every Hebrew candidate      *)
(* gets no row at all.                                                      *)
C8_FuzzyThreshold ==
    /\ \A i \in AIdx :
          Strategy(alignments[i]) = "fuzzy" =>
              LET a == alignments[i]
                  c == a.confidence
              IN  /\ 4 * c.d <= 5 * c.n
                  /\ c.n <= c.d
                  /\ \E e \in Range(spanish_df), h \in HeWithDefs :
                        /\ e.word = a.es_word /\ e.ipa = a.es_ipa
                        /\ h.word = a.he_word /\ h.ipa = a.he_ipa
                        /\ e.definitions # <<>>
                        /\ FracGE(RowScore(e, h), 80)
                        /\ c = Frac(RowScore(e, h).n, RowScore(e, h).d * 100)
    /\ Done =>
          /\ \A e \in Range(spanish_df) :
                (~AlignedEarlier(e.word) /\ BestIsThreshold(e)) =>
                    \E i \in FuzzyRowsOf(e) :
                        alignments[i].confidence = Frac(4, 5)
          /\ \A w \in EsWordSet :
                (/\ ~AlignedEarlier(w)
                 /\ \A e \in Range(spanish_df) : e.word = w => ~Reaches(e))
                    => \A i \in AIdx : alignments[i].es_word # w

\* one word accepted with a best score of exactly 80, another left without
\* any row because its only score is below 80
C8_Witness ==
    /\ Done
    /\ \E e \in Range(spanish_df) :
          /\ BestIsThreshold(e)
          /\ \E i \in FuzzyRowsOf(e) : alignments[i].confidence = Frac(4, 5)
    /\ \E e \in Range(spanish_df) :
          /\ e.definitions # <<>>
          /\ HeWithDefs # {}
          /\ \A f \in Range(spanish_df) : f.word = e.word => ~Reaches(f)
          /\ \A i \in AIdx : alignments[i].es_word # e.word

(* C9 - fuzzy strategy: every Spanish entry left unaligned by strategies    *)
(* 1-2 that has a non-empty definition list gets exactly one fuzzy row      *)
(* (sense_id 1) if some Hebrew entry with definitions scores >= 80 against  *)
(* it, and none otherwise; the row's he_word belongs to a Hebrew entry      *)
(* whose score is the maximum over all Hebrew entries with definitions.     *)
C9_FuzzyOneRowBestCandidate ==
    Done =>
        \A e \in Range(spanish_df) :
            LET copies   == Cardinality({p \in 1..Len(spanish_df) : spanish_df[p] = e})
                eligible == /\ ~AlignedEarlier(e.word)
                            /\ e.definitions # <<>>
                            /\ Reaches(e)
            IN  /\ Cardinality(FuzzyRowsOf(e)) = IF eligible THEN copies ELSE 0
                /\ \A i \in FuzzyRowsOf(e) :
                      /\ alignments[i].sense_id = 1
                      /\ \E h \in HeWithDefs :
                            /\ Best(e, h)
                            /\ h.word = alignments[i].he_word
                            /\ alignments[i].confidence =
                                  Frac(RowScore(e, h).n, RowScore(e, h).d * 100)

\* a fuzzy row for an entry whose best candidate comes after a lower-scoring
\* candidate that also reaches the threshold
C9_Witness ==
    /\ Done
    /\ \E e \in Range(spanish_df) :
          /\ FuzzyRowsOf(e) # {}
          /\ \E k1, k2 \in 1..Len(hebrew_df) :
                /\ k1 < k2
                /\ hebrew_df[k1] \in HeWithDefs
                /\ hebrew_df[k2] \in HeWithDefs
                /\ FracGE(RowScore(e, hebrew_df[k1]), fuzzy_threshold)
                /\ FracGT(RowScore(e, hebrew_df[k2]), RowScore(e, hebrew_df[k1]))

(* C10 - Scenario D: a Spanish entry "perro" with the single definition     *)
(* "Animal doméstico canino" and a Hebrew entry "kelev" with the single     *)
(* definition "Animal doméstico de la familia canina", with no direct or    *)
(* bridge link between them, give one fuzzy row for "perro" with            *)
(* confidence >= 0.8.                                                       *)
C10_ScenarioD ==
    (/\ Done
     /\ spanish_df = <<EsPerroD>>
     /\ hebrew_df = <<HeKelevD>>
     /\ \A q \in BridgeEntries("perro") :
           \A k \in 1..Len(bridge_df.rows[q].translations_he) :
               bridge_df.rows[q].translations_he[k] # "kelev")
        => /\ Cardinality(RowsOf("perro", "fuzzy")) = 1
           /\ \A i \in RowsOf("perro", "fuzzy") :
                 4 * alignments[i].confidence.d <= 5 * alignments[i].confidence.n

-----------------------------------------------------------------------------
\* the text is a non-empty run of decimal digits
IsDigits(s) ==
    /\ Len(s) > 0
    /\ \A k \in 1..Len(s) :
          s[k] \in {"0", "1", "2", "3", "4", "5", "6", "7", "8", "9"}

(* C11 - every alignment's match_type is exactly "direct", "triangulation"  *)
(* or "fuzzy_<score>" with <score> written in digits only (the pattern      *)
(* ^fuzzy_\d+$), whatever similarity score the scorer returned.             *)
C11_MatchTypeFormat ==
    \A i \in AIdx :
        LET m == alignments[i].match_type
        IN  \/ m = <<"direct">>
            \/ m = <<"triangulation">>
            \/ /\ m[1] = "fuzzy_"
               /\ IsDigits(Tail(m))

-----------------------------------------------------------------------------
(* C12 - for every es_word the sense_ids of all its alignments are positive *)
(* and pairwise distinct, also when the Spanish collection holds several    *)
(* (different) entries with the same headword.                              *)
C12_SenseIdsDistinctPerWord ==
    (Done /\ RowsDistinct(spanish_df) /\ RowsDistinct(hebrew_df)) =>
        \A i, j \in AIdx :
            /\ alignments[i].sense_id >= 1
            /\ (/\ alignments[i].es_word = alignments[j].es_word
                /\ alignments[i].sense_id = alignments[j].sense_id) => i = j

-----------------------------------------------------------------------------
\* the sense_ids of the rows of a Spanish headword
SenseIds(w) == {alignments[i].sense_id : i \in {k \in AIdx : alignments[k].es_word = w}}

\* the number of rows of a Spanish headword
RowCount(w) == Cardinality({k \in AIdx : alignments[k].es_word = w})

-----------------------------------------------------------------------------
\* the fuzzy rows of the output, in output order
FuzzyPart == SelectSeq(alignments, LAMBDA a : Strategy(a) = "fuzzy")

\* the rows the fuzzy loop appends for the entries of s, from position k on
RECURSIVE FuzzyRowsFrom(_, _)
FuzzyRowsFrom(s, k) ==
    IF k > Len(s) THEN <<>>
    ELSE FuzzyRows(s[k]) \o FuzzyRowsFrom(s, k + 1)

\* the fuzzy pass over the Spanish collection without its entries that have
\* an empty definition list
RemainingWithDefs ==
    LET kept == SelectSeq(spanish_df,
                    LAMBDA r : r.word \notin aligned_es_words /\ r.definitions # <<>>)
    IN  IF has_frequency_rank THEN SortByRank(kept) ELSE kept

\* the entries that reach the fuzzy phase with an empty definition list
EmptyInFuzzy ==
    {k \in 1..Len(remaining_es) : remaining_es[k].definitions = <<>>}

\* the fuzzy loop is at an entry with an empty definition list
AtEmptyDefinitions ==
    /\ pc = "fuzzy"
    /\ idx <= Len(remaining_es)
    /\ remaining_es[idx].definitions = <<>>

(* C14 - a Spanish entry with an empty definition list that reaches the     *)
(* fuzzy phase gets no alignment and does not stop the run: the loop moves  *)
(* on to the next entry, and the fuzzy rows of the output are exactly the   *)
(* rows, in the same order, that the fuzzy pass produces for the remaining  *)
(* entries when the empty-definition entries are left out.                  *)
C14_EmptyDefinitionsSkipped ==
    /\ [][AtEmptyDefinitions =>
             /\ alignments' = alignments
             /\ pc' = "fuzzy"
             /\ idx' = idx + 1]_vars
    /\ [](Done =>
             /\ \A k \in EmptyInFuzzy :
                   \A i \in AIdx :
                       ~(/\ alignments[i].es_word = remaining_es[k].word
                         /\ alignments[i].es_ipa = remaining_es[k].ipa)
             /\ FuzzyPart = FuzzyRowsFrom(RemainingWithDefs, 1))

\* an empty-definition entry is processed first in the fuzzy phase, and an
\* entry processed after it gets its fuzzy row
C14_Witness ==
    /\ Done
    /\ \E k \in EmptyInFuzzy :
          \E m \in 1..Len(remaining_es) :
              /\ k < m
              /\ FuzzyRowsOf(remaining_es[m]) # {}

-----------------------------------------------------------------------------
(* C15 - if the Spanish collection or the Hebrew collection is empty (in    *)
(* particular when both are), align_languages returns no alignment, with    *)
(* or without a bridge collection: no phase emits a row, the fuzzy phase    *)
(* has nothing to iterate over or nothing to choose from.                   *)
C15_EmptyCollections ==
    (spanish_df = <<>> \/ hebrew_df = <<>>) =>
        /\ alignments = <<>>
        /\ spanish_df = <<>> => remaining_es = <<>>
        /\ hebrew_df = <<>> => he_definitions_list = <<>>

\* a finished run on an empty Hebrew collection and a Spanish entry that has
\* translations, beside a usable bridge
C15_Witness ==
    /\ Done
    /\ hebrew_df = <<>>
    /\ alignments = <<>>
    /\ BridgeUsable
    /\ \E e \in Range(spanish_df) : e.translations_he # <<>>
    /\ \E e \in Range(spanish_df) : e.definitions # <<>>

-----------------------------------------------------------------------------
Enriched == pc = "enriched"

\* the positions of the corpus pairs that hold both words of a row as tokens
PairsOf(row) ==
    {k \in 1..Len(examples_df) :
        /\ row.es_word \in Range(examples_df[k].es_words)
        /\ row.he_word \in Range(examples_df[k].he_words)}

(* C16 - enrich_entries attaches to each alignment exactly the {es, he}     *)
(* texts of the corpus pairs whose es_words list holds the alignment's      *)
(* es_word as a whole token and whose he_words list holds its he_word as a  *)
(* whole token, in corpus order; a pair that satisfies one of the two       *)
(* conditions only, or that holds a word only inside a longer token, is     *)
(* never attached.                                                          *)
C16_ExamplesExactTokenJoin ==
    Enriched =>
        /\ Len(enriched) = Len(aligned_df)
        /\ \A i \in 1..Len(aligned_df) :
              LET ex    == enriched[i].examples
                  pairs == PairsOf(aligned_df[i])
              IN  /\ Len(ex) = Cardinality(pairs)
                  /\ \A k \in pairs :
                        ex[1 + Cardinality({m \in pairs : m < k})] =
                            [es |-> examples_df[k].es, he |-> examples_df[k].he]

\* a row that got one pair attached while the corpus also holds a pair
\* matching on one side only or only inside a longer token
C16_Witness ==
    /\ Enriched
    /\ \E i \in 1..Len(aligned_df) :
          /\ Len(enriched[i].examples) = 1
          /\ \E k \in 1..Len(examples_df) :
                /\ k \notin PairsOf(aligned_df[i])
                /\ \/ aligned_df[i].es_word \in Range(examples_df[k].es_words)
                   \/ \E tok \in Range(examples_df[k].es_words) :
                         <<aligned_df[i].es_word, tok>> \in ProperSubstrings

(* C17 - enrich_entries is a pure join: the output has one row per input    *)
(* alignment, in the same order, with every alignment field unchanged and   *)
(* one added field, examples, that is always a list (the empty list when no *)
(* pair matches or the corpus is empty); the input alignments and the       *)
(* corpus are not modified.                                                 *)
C17_EnrichPureJoin ==
    /\ [](Enriched =>
             /\ Len(enriched) = Len(aligned_df)
             /\ \A i \in 1..Len(aligned_df) :
                   /\ DOMAIN enriched[i] = DOMAIN aligned_df[i] \cup {"examples"}
                   /\ \A f \in DOMAIN aligned_df[i] :
                         enriched[i][f] = aligned_df[i][f]
                   /\ DOMAIN enriched[i].examples = 1..Len(enriched[i].examples)
                   /\ (examples_df = <<>> \/ PairsOf(aligned_df[i]) = {})
                         => enriched[i].examples = <<>>)
    /\ [][aligned_df' = aligned_df /\ examples_df' = examples_df]_vars

\* two rows, one with and one without a matching pair, of which one has a
\* confidence field
C17_Witness ==
    /\ Enriched
    /\ Len(enriched) = 2
    /\ \E i, j \in 1..2 :
          /\ enriched[i].examples = <<>>
          /\ enriched[j].examples # <<>>
    /\ \E i \in 1..2 : "confidence" \in DOMAIN enriched[i]
    /\ examples_df # <<>>

-----------------------------------------------------------------------------
Clustered == pc = "clustered"

\* the Spanish words of the collection given to the clustering
ClWords == {enriched_df[k].es_word : k \in 1..Len(enriched_df)}

\* the rows of a word, as a set of positions
SensesOf(w) == {k \in 1..Len(enriched_df) : enriched_df[k].es_word = w}

\* the similarity of the Spanish definitions of two rows
Sim(p, q) == ratio(enriched_df[p].es_definition, enriched_df[q].es_definition)

\* the similarity of two rows exceeds the threshold
Above70(p, q) == Sim(p, q).n > cluster_threshold * Sim(p, q).d

\* the word is one the clustering works on: 2 to 10 senses
InClusterRange(w) ==
    /\ Cardinality(SensesOf(w)) >= 2
    /\ Cardinality(SensesOf(w)) <= max_clustered_senses

(* C18 - cluster_polysemic_senses leaves semantic_cluster = 1 on every      *)
(* sense of a word with exactly one alignment and of a word with more than  *)
(* 10 alignments; a word with 2 to 10 alignments (10 included) is           *)
(* clustered: its first sense has cluster 1, and cluster 2 is assigned to   *)
(* one of its senses exactly when some sense is not more than 70 similar    *)
(* to the first.                                                            *)
C18_ClusteredSizes ==
    Clustered =>
        \A w \in ClWords :
            LET senses == SensesOf(w)
                first  == MinOf(senses)
            IN  IF InClusterRange(w)
                THEN /\ semantic_cluster[first] = 1
                     /\ (\E k \in senses : semantic_cluster[k] = 2)
                            <=> (\E k \in senses : ~Above70(first, k))
                ELSE \A k \in senses : semantic_cluster[k] = 1

\* a word with exactly 10 senses of which some are in cluster 2, after a
\* word with a single sense
C18_Witness ==
    /\ Clustered
    /\ \E w \in ClWords :
          /\ Cardinality(SensesOf(w)) = max_clustered_senses
          /\ \E k \in SensesOf(w) : semantic_cluster[k] = 2
    /\ \E w \in ClWords : Cardinality(SensesOf(w)) = 1

-----------------------------------------------------------------------------
\* sense j of word w starts a cluster: no earlier seed is more than 70
\* similar to it
RECURSIVE IsSeed(_, _)
IsSeed(w, j) ==
    \A i \in SensesOf(w) : (i < j /\ IsSeed(w, i)) => ~Above70(i, j)

\* the seed of the cluster a sense belongs to: itself, or the lowest-index
\* seed before it that it is more than 70 similar to
SeedOf(w, j) ==
    IF IsSeed(w, j) THEN j
    ELSE MinOf({i \in SensesOf(w) : i < j /\ IsSeed(w, i) /\ Above70(i, j)})

(* C19 - for a word with 2 to 10 senses the clustering is greedy            *)
(* seed-then-absorb: in sense order, each sense not yet assigned seeds a    *)
(* new cluster, and a later unassigned sense joins it iff its definition's  *)
(* similarity to the seed's is > 70 (exactly 70 does not join); so every    *)
(* sense is in the cluster of the lowest-index seed it is > 70 similar to,  *)
(* clusters are numbered from 1 in seed order, and similarity to a member   *)
(* that is not the seed, or to a later seed, plays no part.                 *)
C19_GreedySeedThenAbsorb ==
    Clustered =>
        \A w \in ClWords :
            InClusterRange(w) =>
                \A j \in SensesOf(w) :
                    semantic_cluster[j] =
                        Cardinality({i \in SensesOf(w) :
                                        IsSeed(w, i) /\ i <= SeedOf(w, j)})

\* a sense exactly 70 similar to the first sense stays out of its cluster,
\* and a later sense joins the first
C19_Witness ==
    /\ Clustered
    /\ \E w \in ClWords :
          \E i, j, k \in SensesOf(w) :
              /\ i < j /\ j < k
              /\ i = MinOf(SensesOf(w))
              /\ Sim(i, j) = Frac(cluster_threshold, 1)
              /\ semantic_cluster[j] # semantic_cluster[i]
              /\ semantic_cluster[k] = semantic_cluster[i]

(* C20 - for every Spanish word with 2 to 10 senses, any two of its senses  *)
(* whose es_definitions have similarity > 70 get the same semantic_cluster. *)
C20_SimilarSensesSameCluster ==
    Clustered =>
        \A w \in ClWords :
            InClusterRange(w) =>
                \A p, q \in SensesOf(w) :
                    Above70(p, q) => semantic_cluster[p] = semantic_cluster[q]

-----------------------------------------------------------------------------
\* the senses of a word reached from the set S along pairs of senses that
\* are more than 70 similar, in at most n further steps
RECURSIVE ChainedFrom(_, _, _)
ChainedFrom(w, S, n) ==
    LET T == S \cup {q \in SensesOf(w) : \E p \in S : Above70(p, q)}
    IN  IF n = 0 \/ T = S THEN S ELSE ChainedFrom(w, T, n - 1)

\* p and q are linked by a chain of senses of w, each more than 70 similar
\* to the next
Chained(w, p, q) == q \in ChainedFrom(w, {p}, Cardinality(SensesOf(w)))

(* C21 - for every Spanish word with 2 to 10 senses, two of its senses      *)
(* whose es_definitions have similarity <= 70 and that are not linked by a  *)
(* chain of senses of the word with consecutive similarity > 70 get         *)
(* different semantic_cluster IDs.                                          *)
C21_UnrelatedSensesSeparated ==
    Clustered =>
        \A w \in ClWords :
            InClusterRange(w) =>
                \A p, q \in SensesOf(w) :
                    (~Above70(p, q) /\ ~Chained(w, p, q))
                        => semantic_cluster[p] # semantic_cluster[q]

\* a word with two unlinked senses in different clusters, and a later sense
\* that shares the cluster of the first of them
C21_Witness ==
    /\ Clustered
    /\ \E w \in ClWords :
          \E p, q, r \in SensesOf(w) :
              /\ p < q /\ q < r
              /\ ~Above70(p, q) /\ ~Chained(w, p, q)
              /\ semantic_cluster[p] # semantic_cluster[q]
              /\ Chained(w, p, r)
              /\ semantic_cluster[p] = semantic_cluster[r]

-----------------------------------------------------------------------------
Structured == pc = "structured"

\* the entries emitted for a Spanish word
EntriesOf(w) == {k \in 1..Len(entries) : entries[k].entry.word = w}

RECURSIVE SumLen(_, _)
SumLen(es, k) ==
    IF k > Len(es) THEN 0 ELSE Len(es[k].entry.senses) + SumLen(es, k + 1)

(* C22 - structure_senses emits exactly one entry per distinct es_word of   *)
(* its input, with id "es: <word>" and language "es"; the entry has as many *)
(* senses as there are input rows with that es_word, and the senses of all  *)
(* entries together are as many as the input rows.                          *)
C22_OneEntryPerWord ==
    Structured =>
        /\ \A k \in 1..Len(entries) : entries[k].entry.word \in ClWords
        /\ \A w \in ClWords :
              /\ Cardinality(EntriesOf(w)) = 1
              /\ \A k \in EntriesOf(w) :
                    /\ entries[k].id = <<"es: ", w>>
                    /\ entries[k].entry.language = "es"
                    /\ Len(entries[k].entry.senses) = Cardinality(SensesOf(w))
        /\ SumLen(entries, 1) = Len(enriched_df)

\* two words, one of them with two rows that name the same Hebrew word
C22_Witness ==
    /\ Structured
    /\ Len(entries) = 2
    /\ \E w \in ClWords :
          \E p, q \in SensesOf(w) :
              p # q /\ enriched_df[p].he_word = enriched_df[q].he_word

(* C23 - in each entry of structure_senses, ipa is the es_ipa of the first  *)
(* input row with that es_word, and the senses follow the input order of    *)
(* the word's rows, each sense carrying its own row's sense_id,             *)
(* es_definition, he_word, he_ipa, es_pos and examples: rows are neither    *)
(* sorted by sense_id nor merged.                                           *)
C23_SensesInRowOrder ==
    Structured =>
        \A k \in 1..Len(entries) :
            LET w    == entries[k].entry.word
                rows == SensesOf(w)
            IN  /\ entries[k].entry.ipa = enriched_df[MinOf(rows)].es_ipa
                /\ Len(entries[k].entry.senses) = Cardinality(rows)
                /\ \A r \in rows :
                      LET s == entries[k].entry.senses[
                                   1 + Cardinality({q \in rows : q < r})]
                          x == enriched_df[r]
                      IN  /\ s.sense_id = x.sense_id
                          /\ s.definition = x.es_definition
                          /\ s.hebrew = x.he_word
                          /\ s.ipa_hebrew = x.he_ipa
                          /\ s.pos = x.es_pos
                          /\ s.examples = x.examples

\* a word whose first row has the higher sense_id and another IPA than its
\* second row, with a row of another word in between
C23_Witness ==
    /\ Structured
    /\ \E w \in ClWords :
          \E p, q, r \in 1..Len(enriched_df) :
              /\ p < q /\ q < r
              /\ enriched_df[p].es_word = w
              /\ enriched_df[r].es_word = w
              /\ enriched_df[q].es_word # w
              /\ enriched_df[p].sense_id > enriched_df[r].sense_id
              /\ enriched_df[p].es_ipa # enriched_df[r].es_ipa
              /\ enriched_df[p].examples # <<>>

-----------------------------------------------------------------------------
\* the remaining Spanish entries that are matched against the Hebrew index
Queries == SelectSeq(remaining_es, LAMBDA r : r.definitions # <<>>)

\* the definition-string comparisons of the whole fuzzy pass
RECURSIVE FuzzyWorkFrom(_)
FuzzyWorkFrom(k) ==
    IF k > Len(Queries) THEN 0
    ELSE ScorerCalls(Join(Queries[k].definitions), he_definitions_list, 1)
         + FuzzyWorkFrom(k + 1)

FuzzyWork == FuzzyWorkFrom(1)

(* C24 - the fuzzy strategy does less than quadratic work: for n remaining  *)
(* Spanish entries and m Hebrew candidates (n, m >= 2) the number of        *)
(* definition-string comparisons stays below n * m, so that doubling both   *)
(* from 1 to 2 does not quadruple the work.                                 *)
C24_FuzzySubQuadratic ==
    (Done /\ Len(Queries) >= 2 /\ Len(he_definitions_list) >= 2)
        => FuzzyWork < Len(Queries) * Len(he_definitions_list)

-----------------------------------------------------------------------------
\* the first row of the Hebrew collection with a headword
FirstHe(he_word) ==
    hebrew_df[MinOf({k \in 1..Len(hebrew_df) : hebrew_df[k].word = he_word})]

\* the direct row of translation position k of the Spanish row at position
\* p, once the direct phase is over
DirectRowOf(p, k) ==
    DirectPart[1 + Cardinality({g \in DirectHits : HitBefore(g, <<p, k>>)})]

(* C25 - a direct alignment for translation position i (0-based) has        *)
(* es_definition = definitions[i] of its Spanish entry when                 *)
(* i < len(definitions), the first definition when i is out of range, and   *)
(* the empty text when the entry has no definitions; he_definition is the   *)
(* first definition of the matched Hebrew entry, empty if it has none; an   *)
(* empty Spanish definition list does not keep the row from being emitted.  *)
C25_DirectDefinitions ==
    DirectPhaseOver =>
        /\ Len(DirectPart) = Cardinality(DirectHits)
        /\ \A h \in DirectHits :
              LET a    == DirectRowOf(h[1], h[2])
                  e    == spanish_df[h[1]]
                  i    == h[2] - 1
                  defs == e.definitions
                  he   == FirstHe(e.translations_he[h[2]])
              IN  /\ a.es_ipa = e.ipa
                  /\ a.sense_id = i + 1
                  /\ a.es_definition =
                        IF i < Len(defs) THEN defs[i + 1]
                        ELSE IF defs # <<>> THEN defs[1]
                        ELSE <<>>
                  /\ a.he_definition =
                        IF he.definitions # <<>> THEN he.definitions[1] ELSE <<>>

\* direct rows of an entry without definitions and of an entry with fewer
\* definitions than translations, one of them to a Hebrew entry without
\* definitions
C25_Witness ==
    /\ Done
    /\ \E h \in DirectHits : spanish_df[h[1]].definitions = <<>>
    /\ \E h \in DirectHits :
          /\ spanish_df[h[1]].definitions # <<>>
          /\ h[2] > Len(spanish_df[h[1]].definitions)
    /\ \E h \in DirectHits :
          FirstHe(spanish_df[h[1]].translations_he[h[2]]).definitions = <<>>

-----------------------------------------------------------------------------
\* the cluster IDs of a word's senses
ClusterIds(w) == {semantic_cluster[k] : k \in SensesOf(w)}

\* the senses of a word with a cluster ID
Members(w, c) == {k \in SensesOf(w) : semantic_cluster[k] = c}

(* C26 - for every word the clustering works on (2 to 10 senses) the        *)
(* semantic_cluster IDs of its senses are exactly 1..N without gaps, its    *)
(* first sense is in cluster 1, and clusters are numbered in the order they *)
(* were formed: the lowest-index member of cluster k comes before the       *)
(* lowest-index member of cluster k + 1.                                    *)
C26_ClusterIdsInFormationOrder ==
    Clustered =>
        \A w \in ClWords :
            InClusterRange(w) =>
                /\ ClusterIds(w) = 1..Cardinality(ClusterIds(w))
                /\ semantic_cluster[MinOf(SensesOf(w))] = 1
                /\ \A c \in ClusterIds(w) :
                      (c + 1) \in ClusterIds(w) =>
                          MinOf(Members(w, c)) < MinOf(Members(w, c + 1))

\* a word with three clusters
C26_Witness ==
    /\ Clustered
    /\ \E w \in ClWords : InClusterRange(w) /\ ClusterIds(w) = {1, 2, 3}

(* C29 - after the clustering of a word with 2 to 10 senses its clusters    *)
(* partition the senses (every sense has one cluster ID, and every ID from  *)
(* 1 to the highest has a member), every member of a cluster other than     *)
(* its seed, the lowest-index member, is more than 70 similar to the seed,  *)
(* and two different seeds are at most 70 similar.                          *)
C29_ClustersAroundSeeds ==
    Clustered =>
        \A w \in ClWords :
            InClusterRange(w) =>
                /\ Len(semantic_cluster) = Len(enriched_df)
                /\ \A k \in SensesOf(w) :
                      semantic_cluster[k] \in 1..Cardinality(SensesOf(w))
                /\ \A c \in ClusterIds(w) :
                      \A k \in Members(w, c) :
                          k # MinOf(Members(w, c))
                              => Above70(MinOf(Members(w, c)), k)
                /\ \A c, d \in ClusterIds(w) :
                      c # d => ~Above70(MinOf(Members(w, c)), MinOf(Members(w, d)))

\* a cluster of two senses, one of which is more than 70 similar to a sense
\* of another cluster
C29_Witness ==
    /\ Clustered
    /\ \E w \in ClWords :
          /\ InClusterRange(w)
          /\ \E p, q \in SensesOf(w) :
                /\ semantic_cluster[p] # semantic_cluster[q]
                /\ Above70(p, q)
          /\ \E c \in ClusterIds(w) : Cardinality(Members(w, c)) >= 2

-----------------------------------------------------------------------------
\* the frequency_rank of the Spanish entry a row was made from
RankOf(a) ==
    (CHOOSE e \in Range(spanish_df) : e.word = a.es_word /\ e.ipa = a.es_ipa)
        .frequency_rank

\* the fuzzy rows of a pass over the unaligned Spanish entries in source order
SourceOrderFuzzy ==
    FuzzyRowsFrom(SelectSeq(spanish_df,
                            LAMBDA r : r.word \notin aligned_es_words), 1)

\* how often a row occurs in a list
Count(s, x) == Cardinality({k \in 1..Len(s) : s[k] = x})

(* C27 - the fuzzy phase takes the remaining Spanish entries in ascending   *)
(* frequency_rank order when the Spanish collection has that field and in   *)
(* source order otherwise, and the fuzzy rows appear in the output in that  *)
(* order; the order of processing changes the order of the fuzzy rows       *)
(* only: the rows themselves, and so the matched words and their Hebrew     *)
(* words, are those of a pass in source order.                              *)
C27_FuzzyOrderByRank ==
    Done =>
        /\ ~has_frequency_rank => FuzzyPart = SourceOrderFuzzy
        /\ has_frequency_rank =>
              \A i, j \in 1..Len(FuzzyPart) :
                  i < j => RankOf(FuzzyPart[i]) <= RankOf(FuzzyPart[j])
        /\ Len(FuzzyPart) = Len(SourceOrderFuzzy)
        /\ \A k \in 1..Len(FuzzyPart) :
              Count(FuzzyPart, FuzzyPart[k]) = Count(SourceOrderFuzzy, FuzzyPart[k])

\* two fuzzy rows that the ranks put in the reverse of their source order
C27_Witness ==
    /\ Done
    /\ has_frequency_rank
    /\ Len(FuzzyPart) = 2
    /\ FuzzyPart # SourceOrderFuzzy
    /\ RankOf(FuzzyPart[1]) < RankOf(FuzzyPart[2])

-----------------------------------------------------------------------------
\* the phase that emitted a row
PhaseOf(a) ==
    CASE Strategy(a) = "direct"        -> 1
      [] Strategy(a) = "triangulation" -> 2
      [] Strategy(a) = "fuzzy"         -> 3

(* C28 - the list built by align_languages is append-only and ordered by    *)
(* phase: every direct row comes before every triangulation row, which      *)
(* comes before every fuzzy row; the direct rows are in Spanish source      *)
(* order and, within an entry, in translation-list order; and no step       *)
(* removes, replaces or reorders a row that is already in the list.         *)
C28_AppendOnlyPhaseOrdered ==
    /\ [](\A i, j \in AIdx :
              i < j => PhaseOf(alignments[i]) <= PhaseOf(alignments[j]))
    /\ [](DirectPhaseOver =>
              \A g, h \in DirectHits :
                  /\ DirectRowOf(h[1], h[2]).es_ipa = spanish_df[h[1]].ipa
                  /\ DirectRowOf(h[1], h[2]).sense_id = h[2]
                  /\ (g[1] = h[1] /\ g[2] < h[2])
                        => DirectRowOf(g[1], g[2]).sense_id
                               < DirectRowOf(h[1], h[2]).sense_id)
    /\ [][/\ Len(alignments') >= Len(alignments)
          /\ SubSeq(alignments', 1, Len(alignments)) = alignments]_vars

\* two direct rows of one entry followed by a row of a later phase
C28_Witness ==
    /\ Done
    /\ Len(alignments) >= 3
    /\ alignments[1].es_ipa = alignments[2].es_ipa
    /\ PhaseOf(alignments[1]) = 1
    /\ PhaseOf(alignments[2]) = 1
    /\ PhaseOf(alignments[3]) = 2

-----------------------------------------------------------------------------
(* C30 - when several Hebrew entries share the headword named by a direct   *)
(* translation link or by a triangulation candidate, one alignment is       *)
(* emitted for the link, not one per matching Hebrew entry, and its he_ipa  *)
(* and he_definition come from the first such Hebrew entry in source order. *)
C30_FirstHebrewEntryOfHeadword ==
    /\ \A i \in AIdx :
          Strategy(alignments[i]) # "fuzzy" =>
              /\ alignments[i].he_ipa = FirstHe(alignments[i].he_word).ipa
              /\ alignments[i].he_definition =
                    FirstDef(FirstHe(alignments[i].he_word).definitions)
    /\ DirectPhaseOver => Len(DirectPart) = Cardinality(DirectHits)
    /\ \A w \in EsWordSet : Cardinality(RowsOf(w, "triangulation")) <= 1

\* a direct row and a triangulation row to a headword that two Hebrew
\* entries with different IPA and definitions share
C30_Witness ==
    /\ Done
    /\ Len(hebrew_df) = 2
    /\ hebrew_df[1].word = hebrew_df[2].word
    /\ hebrew_df[1].ipa # hebrew_df[2].ipa
    /\ hebrew_df[1].definitions # hebrew_df[2].definitions
    /\ \E i, j \in AIdx :
          /\ Strategy(alignments[i]) = "direct"
          /\ Strategy(alignments[j]) = "triangulation"
          /\ alignments[i].he_word = hebrew_df[1].word
          /\ alignments[j].he_word = hebrew_df[1].word

=============================================================================
